---- MODULE Spec2Model ----
(***************************************************************************)
(* A model of the micromouse maze solver: Direction.py, Maze.py, Mouse.py, *)
(* Main.py and the adapter API.py with the simulator behind it.            *)
(*                                                                         *)
(* Python objects are records, a method is an operator from the object    *)
(* (or the whole program state) to its new value, None is the integer     *)
(* -1, a raised exception is the name of its class in the field err.      *)
(***************************************************************************)
EXTENDS Integers, Sequences, FiniteSets, TLC

VARIABLES maze, mouse, sim, start, goal, pc, ret

vars == <<maze, mouse, sim, start, goal, pc, ret>>

\* ----------------------------------------------------------------- bounds

\* The largest number of cells (width * height) of a maze.
MaxCells == 5

\* The largest number of interior walls of a maze, real or recorded.
MaxWalls == 2

\* The longest move a client asks of move_forward, and the most edges of a
\* path it asks follow_path to replay.
MaxMove == 2

MaxEdges == 3

\* The largest number of cells, and of interior walls, of a maze a route is
\* planned in.
MaxPathCells == 6

MaxPathWalls == 1

\* The largest number of cells, and of interior walls, of a maze the mouse
\* chooses among neighbors in.
MaxCandCells == 3

MaxCandWalls == 1

\* How far outside the grid, on each side, a position looked up lies at
\* most, and the most cells of a path whose corners are counted.
MaxBeyond == 2

MaxCornerLen == 4

\* ------------------------------------------------------------ conventions

\* Python's None, as the value of a distance field or of a result.
None == -1

\* No exception is pending.
NoErr == "none"

\* ------------------------------------------------------------ Direction.py

NORTH == 0

EAST == 1

SOUTH == 2

WEST == 3

\* `for direction in Direction`: the members in definition order.
Direction == <<NORTH, EAST, SOUTH, WEST>>

minus_90(d) == (d - 1) % 4

plus_90(d) == (d + 1) % 4

\* minus_180 that turns by a quarter only.
minus_180_by_quarter(d) == (d - 1) % 4

minus_180(d) == (d - 2) % 4

add_to_position(d, position) ==
  IF d = NORTH THEN <<position[1], position[2] + 1>>
  ELSE IF d = EAST THEN <<position[1] + 1, position[2]>>
  ELSE IF d = SOUTH THEN <<position[1], position[2] - 1>>
  ELSE <<position[1] - 1, position[2]>>

\* ----------------------------------------------------------------- Maze.py

\* MazeCell.__init__: no walls, no distances, not confirmed.
MazeCell(position) ==
  [position |-> position,
   walls |-> [d \in 0..3 |-> FALSE],
   distance_to_goal |-> None,
   distance_to_start |-> None,
   confirmed_distance |-> FALSE]

\* set_wall that clears a wall already set.
MazeCell_toggle_wall(c, d) == [c EXCEPT !.walls[d] = ~@]

MazeCell_set_wall(c, d) == [c EXCEPT !.walls[d] = TRUE]

MazeCell_clear_wall(c, d) == [c EXCEPT !.walls[d] = FALSE]

get_distance(c, st) == IF st THEN c.distance_to_start ELSE c.distance_to_goal

\* set_distance that writes both distance fields.
set_distance_of_both(c, distance, st) ==
  [c EXCEPT !.distance_to_start = distance, !.distance_to_goal = distance]

\* set_distance that also sets the confirmed flag.
set_distance_confirming(c, distance, st) ==
  IF st THEN [c EXCEPT !.distance_to_start = distance, !.confirmed_distance = TRUE]
  ELSE [c EXCEPT !.distance_to_goal = distance, !.confirmed_distance = TRUE]

\* set_distance that also clears the confirmed flag.
set_distance_unconfirming(c, distance, st) ==
  IF st THEN [c EXCEPT !.distance_to_start = distance, !.confirmed_distance = FALSE]
  ELSE [c EXCEPT !.distance_to_goal = distance, !.confirmed_distance = FALSE]

set_distance(c, distance, st) ==
  IF st THEN [c EXCEPT !.distance_to_start = distance]
  ELSE [c EXCEPT !.distance_to_goal = distance]

set_confirmed_distance(c, confirmed) == [c EXCEPT !.confirmed_distance = confirmed]

\* The perimeter walls Maze.__init__ sets on one cell.
\* The perimeter walls without the one of the top row.
perimeter_walls_but_north(c, w, h) ==
  LET c1 == IF c.position[1] = 0 THEN MazeCell_set_wall(c, WEST) ELSE c
      c2 == IF c.position[1] = w - 1 THEN MazeCell_set_wall(c1, EAST) ELSE c1
  IN IF c.position[2] = 0 THEN MazeCell_set_wall(c2, SOUTH) ELSE c2

perimeter_walls(c, w, h) ==
  LET c1 == IF c.position[1] = 0 THEN MazeCell_set_wall(c, WEST) ELSE c
      c2 == IF c.position[1] = w - 1 THEN MazeCell_set_wall(c1, EAST) ELSE c1
      c3 == IF c.position[2] = 0 THEN MazeCell_set_wall(c2, SOUTH) ELSE c2
  IN IF c.position[2] = h - 1 THEN MazeCell_set_wall(c3, NORTH) ELSE c3

\* Maze.__init__: the cells row by row (cell (x, y) is element y * w + x of
\* the Python list, element y * w + x + 1 here), then the perimeter walls.
Maze(w, h) ==
  [width |-> w,
   height |-> h,
   cells |-> [i \in 1..(w * h) |->
               perimeter_walls(MazeCell(<<(i - 1) % w, (i - 1) \div w>>), w, h)]]

contains(m, position) ==
  /\ position[1] >= 0
  /\ position[1] < m.width
  /\ position[2] >= 0
  /\ position[2] < m.height

\* The index of get_cell with the rows taken for height cells long.
cell_index_by_height(m, position) == position[2] * m.height + position[1] + 1

\* The index Maze.get_cell computes; the caller has checked contains.
cell_index(m, position) == position[2] * m.width + position[1] + 1

\* Maze.get_cell: the reference to a cell is its index in m.cells; None stands
\* for the IndexError of a position out of bounds.
get_cell(m, position) ==
  IF ~contains(m, position) THEN None ELSE cell_index(m, position)

\* set_wall without the wall of the adjacent cell.
Maze_set_wall_one_side(m, i, d) == [m EXCEPT !.cells[i] = MazeCell_set_wall(@, d)]

\* Maze.set_wall: the wall on the cell and, when the neighbor is in bounds,
\* the opposite wall on the neighbor.
Maze_set_wall(m, i, d) ==
  LET m1 == [m EXCEPT !.cells[i] = MazeCell_set_wall(@, d)]
      neighbor == add_to_position(d, m.cells[i].position)
  IN IF get_cell(m1, neighbor) = None THEN m1
     ELSE [m1 EXCEPT !.cells[get_cell(m1, neighbor)] = MazeCell_set_wall(@, minus_180(d))]

get_neighbors(m, position) ==
  LET one(d) == IF contains(m, add_to_position(d, position))
                THEN <<get_cell(m, add_to_position(d, position))>>
                ELSE <<>>
  IN one(NORTH) \o one(EAST) \o one(SOUTH) \o one(WEST)

\* get_reachable_neighbors without the test of the wall.
get_reachable_neighbors_through_walls(m, position) ==
  LET one(d) == IF contains(m, add_to_position(d, position))
                THEN <<get_cell(m, add_to_position(d, position))>>
                ELSE <<>>
  IN one(NORTH) \o one(EAST) \o one(SOUTH) \o one(WEST)

get_reachable_neighbors(m, position) ==
  LET one(d) == IF /\ contains(m, add_to_position(d, position))
                   /\ ~m.cells[get_cell(m, position)].walls[d]
                THEN <<get_cell(m, add_to_position(d, position))>>
                ELSE <<>>
  IN one(NORTH) \o one(EAST) \o one(SOUTH) \o one(WEST)

\* The inner loop of the flood fill over the neighbors of one dequeued cell:
\* the state is the pair of the maze and the queue.
RECURSIVE flood_neighbors(_, _, _, _, _)
flood_neighbors(mq, cell, neighbors, k, st) ==
  IF k > Len(neighbors) THEN mq
  ELSE LET n == neighbors[k]
           m == mq[1]
       IN IF get_distance(m.cells[n], st) = None
          THEN flood_neighbors(
                 <<[m EXCEPT !.cells[n] =
                      set_distance(@, get_distance(m.cells[cell], st) + 1, st)],
                   Append(mq[2], n)>>,
                 cell, neighbors, k + 1, st)
          ELSE flood_neighbors(mq, cell, neighbors, k + 1, st)

\* `while queue:` of the flood fill.
RECURSIVE flood_queue(_, _, _)
flood_queue(m, queue, st) ==
  IF queue = <<>> THEN m
  ELSE LET cell == Head(queue)
           mq == flood_neighbors(<<m, Tail(queue)>>, cell,
                                 get_reachable_neighbors(m, m.cells[cell].position),
                                 1, st)
       IN flood_queue(mq[1], mq[2], st)

\* Maze.update_flood_fill_distances(goal, start=st): the caller passes a
\* position in bounds.
update_flood_fill_distances(m, target, st) ==
  LET cleared == [m EXCEPT !.cells = [i \in DOMAIN m.cells |-> set_distance(m.cells[i], None, st)]]
      m0 == [cleared EXCEPT !.cells[get_cell(m, target)] = set_distance(@, 0, st)]
  IN flood_queue(m0, <<get_cell(m, target)>>, st)

\* Maze.is_straight
\* is_straight that compares the steps along x only.
is_straight_along_x(position1, position2, position3) ==
  position2[1] - position1[1] = position3[1] - position2[1]

is_straight(position1, position2, position3) ==
  <<position2[1] - position1[1], position2[2] - position1[2]>> =
  <<position3[1] - position2[1], position3[2] - position2[2]>>

\* Maze.count_corners over a path of cell references: i is the Python index
\* of the middle cell, element i + 1 here.
count_corners(m, path) ==
  Cardinality({i \in 1..(Len(path) - 2) :
                 ~is_straight(m.cells[path[i]].position,
                              m.cells[path[i + 1]].position,
                              m.cells[path[i + 2]].position)})

CORNER_WEIGHT == 2

DISTANCE_WEIGHT == 1

\* Maze.path_cost; the caller has checked that distance is not None.
path_cost(corners, distance) == CORNER_WEIGHT * corners + DISTANCE_WEIGHT * distance

\* MazeCell.__eq__, after the identity test Python makes first.
cell_eq(m, a, b) == a = b \/ m.cells[a].distance_to_goal = m.cells[b].distance_to_goal

\* MazeCell.__lt__
cell_lt(m, a, b) == m.cells[a].distance_to_goal < m.cells[b].distance_to_goal

\* Python's p < q of two lists of cells: the first index whose cells are not
\* equal decides, else the shorter list is the smaller.
path_lt(m, p, q) ==
  LET n == IF Len(p) < Len(q) THEN Len(p) ELSE Len(q)
      differ == {k \in 1..n : ~cell_eq(m, p[k], q[k])}
  IN IF differ = {} THEN Len(p) < Len(q)
     ELSE LET k == CHOOSE j \in differ : \A i \in differ : j <= i
          IN cell_lt(m, p[k], q[k])

\* Python's a < b of two (cost, cell, path) items of the open set.
item_lt(m, a, b) ==
  IF a.cost # b.cost THEN a.cost < b.cost
  ELSE IF ~cell_eq(m, a.cell, b.cell) THEN cell_lt(m, a.cell, b.cell)
  ELSE path_lt(m, a.path, b.path)

\* heapq._siftdown(heap, startpos, pos) with newitem held aside; positions
\* are Python's, element pos + 1 here.
RECURSIVE siftdown(_, _, _, _, _)
siftdown(m, heap, startpos, pos, newitem) ==
  IF pos > startpos /\ item_lt(m, newitem, heap[((pos - 1) \div 2) + 1])
  THEN siftdown(m, [heap EXCEPT ![pos + 1] = heap[((pos - 1) \div 2) + 1]],
                startpos, (pos - 1) \div 2, newitem)
  ELSE [heap EXCEPT ![pos + 1] = newitem]

\* The loop of heapq._siftup: the smaller child moves up until a leaf is
\* reached, then newitem sifts down from there.
RECURSIVE siftup(_, _, _, _)
siftup(m, heap, pos, newitem) ==
  LET endpos == Len(heap)
      childpos == 2 * pos + 1
      rightpos == childpos + 1
      smaller == IF rightpos < endpos /\ ~item_lt(m, heap[childpos + 1], heap[rightpos + 1])
                 THEN rightpos ELSE childpos
  IN IF childpos < endpos
     THEN siftup(m, [heap EXCEPT ![pos + 1] = heap[smaller + 1]], smaller, newitem)
     ELSE siftdown(m, heap, 0, pos, newitem)

heappush(m, heap, item) == siftdown(m, Append(heap, item), 0, Len(heap), item)

\* heapq.heappop: the pair of the smallest item and the heap left.
heappop(m, heap) ==
  LET lastelt == heap[Len(heap)]
      rest == SubSeq(heap, 1, Len(heap) - 1)
  IN IF rest = <<>> THEN <<lastelt, rest>>
     ELSE <<heap[1], siftup(m, rest, 0, lastelt)>>

\* The outcome of a search: the path returned and the cost of the item that
\* held it (the one logged with "Path found"), or None (~found), or the
\* exception raised.
Found(path, cost) == [path |-> path, found |-> TRUE, err |-> NoErr, cost |-> cost]

NotFound == [path |-> <<>>, found |-> FALSE, err |-> NoErr, cost |-> 0]

Raised(err) == [path |-> <<>>, found |-> FALSE, err |-> err, cost |-> 0]

\* `for neighbor in candidate_cells` of find_fastest_path: the open set after
\* the pushes, or <<>> with raised when path_cost meets a distance of None
\* (int * None is a TypeError).
RECURSIVE push_candidates(_, _, _, _, _, _)
push_candidates(m, open_set, item, candidate_cells, k, raised) ==
  IF raised \/ k > Len(candidate_cells) THEN [open_set |-> open_set, raised |-> raised]
  ELSE LET neighbor == candidate_cells[k]
           corners == count_corners(m, item.path \o <<item.cell, neighbor>>)
           distance == m.cells[neighbor].distance_to_goal
       IN IF distance = None
          THEN push_candidates(m, open_set, item, candidate_cells, k + 1, TRUE)
          ELSE push_candidates(
                 m,
                 heappush(m, open_set,
                          [cost |-> item.cost + path_cost(corners, distance),
                           cell |-> neighbor,
                           path |-> item.path \o <<item.cell>>]),
                 item, candidate_cells, k + 1, FALSE)

\* The loop of find_fastest_path without the test that a neighbour is
\* confirmed.
RECURSIVE search_unconfirmed(_, _, _, _)
search_unconfirmed(m, open_set, visited, goal_position) ==
  IF open_set = <<>> THEN NotFound
  ELSE LET popped == heappop(m, open_set)
           item == popped[1]
           candidate_cells == get_reachable_neighbors(m, m.cells[item.cell].position)
           pushed == push_candidates(m, popped[2], item, candidate_cells, 1, FALSE)
       IN IF m.cells[item.cell].position = goal_position
          THEN Found(item.path \o <<item.cell>>, item.cost)
          ELSE IF item.cell \in visited
          THEN search_unconfirmed(m, popped[2], visited, goal_position)
          ELSE IF pushed.raised THEN Raised("TypeError")
          ELSE search_unconfirmed(m, pushed.open_set, visited \cup {item.cell},
                                  goal_position)

\* `while open_set:` of find_fastest_path.  Membership in the set visited is
\* by hash(repr(cell)) first, and the repr holds the position, so it is
\* membership of the cell itself.
RECURSIVE search(_, _, _, _)
search(m, open_set, visited, goal_position) ==
  IF open_set = <<>> THEN NotFound
  ELSE LET popped == heappop(m, open_set)
           item == popped[1]
           confirmed(c) == m.cells[c].confirmed_distance
           candidate_cells ==
             SelectSeq(get_reachable_neighbors(m, m.cells[item.cell].position), confirmed)
           pushed == push_candidates(m, popped[2], item, candidate_cells, 1, FALSE)
       IN IF m.cells[item.cell].position = goal_position
          THEN Found(item.path \o <<item.cell>>, item.cost)
          ELSE IF item.cell \in visited
          THEN search(m, popped[2], visited, goal_position)
          ELSE IF pushed.raised THEN Raised("TypeError")
          ELSE search(m, pushed.open_set, visited \cup {item.cell}, goal_position)

\* Maze.find_fastest_path(start, goal); the caller passes positions in bounds.
find_fastest_path(m, start_position, goal_position) ==
  search(m, <<[cost |-> 0, cell |-> get_cell(m, start_position), path |-> <<>>]>>,
         {}, goal_position)

\* ------------------------------------------------------------------ API.py

\* The simulator at the other end of API.command: the real maze (a Maze
\* whose walls are the real ones), the real pose of the mouse, and the turn
\* and move commands received so far.
Simulator(real, position, direction) ==
  [maze |-> real, position |-> position, direction |-> direction, cmds |-> <<>>]

\* The real wall of the mouse's cell in direction d.
sim_wall(sm, d) == sm.maze.cells[get_cell(sm.maze, sm.position)].walls[d]

API_wallFront(sm) == sim_wall(sm, sm.direction)

\* wallLeft that answers for the wall in front.
API_wallLeft_of_front(sm) == sim_wall(sm, sm.direction)

API_wallLeft(sm) == sim_wall(sm, minus_90(sm.direction))

\* wallRight that answers for the wall on the left.
API_wallRight_of_left(sm) == sim_wall(sm, minus_90(sm.direction))

API_wallRight(sm) == sim_wall(sm, plus_90(sm.direction))

API_turnLeft(sm) ==
  [sm EXCEPT !.direction = minus_90(@), !.cmds = Append(@, <<"turnLeft", 1>>)]

API_turnRight(sm) ==
  [sm EXCEPT !.direction = plus_90(@), !.cmds = Append(@, <<"turnRight", 1>>)]

\* The cells the simulated mouse can advance, at most distance, before a wall.
RECURSIVE sim_free_run(_, _)
sim_free_run(sm, distance) ==
  IF distance = 0 \/ API_wallFront(sm) THEN 0
  ELSE 1 + sim_free_run([sm EXCEPT !.position = add_to_position(sm.direction, @)],
                        distance - 1)

RECURSIVE steps(_, _, _)
steps(position, d, n) ==
  IF n = 0 THEN position ELSE steps(add_to_position(d, position), d, n - 1)

\* The answer to moveForward(distance) is "crash" when a wall is in the way.
sim_crash(sm, distance) == sim_free_run(sm, distance) < distance

\* API.moveForward(distance): the simulated mouse advances up to the wall.
API_moveForward(sm, distance) ==
  [sm EXCEPT !.position = steps(@, sm.direction, sim_free_run(sm, distance)),
             !.cmds = Append(@, <<"moveForward", distance>>)]

\* ---------------------------------------------------------------- Mouse.py

\* The state a method of Mouse works on: the maze, the mouse, the simulator
\* and the exception raised, if any; a statement runs only while none is.
State(m, ms, sm) == [maze |-> m, mouse |-> ms, sim |-> sm, err |-> NoErr]

raise(S, err) == [S EXCEPT !.err = err]

\* The call of `name` by the mouse, kept in the order of the calls.
called(S, name) == [S EXCEPT !.mouse.calls = Append(@, name)]

get_front(ms) == add_to_position(ms.direction, ms.position)

\* get_left that answers the cell on the right.
get_left_mirrored(ms) == add_to_position(plus_90(ms.direction), ms.position)

get_left(ms) == add_to_position(minus_90(ms.direction), ms.position)

get_right(ms) == add_to_position(plus_90(ms.direction), ms.position)

\* get_back that answers the cell two steps behind.
get_back_far(ms) ==
  add_to_position(minus_180(ms.direction),
                  add_to_position(minus_180(ms.direction), ms.position))

get_back(ms) == add_to_position(minus_180(ms.direction), ms.position)

turn_left(S) ==
  IF S.err # NoErr THEN S
  ELSE [S EXCEPT !.sim = API_turnLeft(@), !.mouse.direction = minus_90(@)]

turn_right(S) ==
  IF S.err # NoErr THEN S
  ELSE [S EXCEPT !.sim = API_turnRight(@), !.mouse.direction = plus_90(@)]

turn_around(S, left) ==
  IF left THEN turn_left(turn_left(S)) ELSE turn_right(turn_right(S))

\* repr(cell), the text whose hash places a cell in the set visited.
repr(c) == <<c.position, c.walls, c.distance_to_goal>>

\* self.visited.add(cell): the set holds the cell under the hash it has now.
visited_add(m, visited, i) == visited \cup {<<i, repr(m.cells[i])>>}

\* `cell in self.visited`: an entry under the hash the cell has now.
in_visited(m, visited, i) == <<i, repr(m.cells[i])>> \in visited

\* self.cell.set_distance_is_confirmed(True): MazeCell defines no method of
\* this name (its setter is set_confirmed_distance), an AttributeError.
set_distance_is_confirmed(S, confirmed) ==
  IF S.err # NoErr THEN S ELSE raise(S, "AttributeError")

\* One pass of `for _ in range(distance)` of move_forward.
move_step(S) ==
  IF S.err # NoErr THEN S
  ELSE LET position == add_to_position(S.mouse.direction, S.mouse.position)
           S1 == [S EXCEPT !.mouse.position = position,
                           !.mouse.trail = Append(@, position)]
           S2 == IF get_cell(S.maze, position) = None THEN raise(S1, "IndexError")
                 ELSE [S1 EXCEPT !.mouse.cell = get_cell(S.maze, position),
                                 !.mouse.visited =
                                   visited_add(S.maze, @, get_cell(S.maze, position))]
       IN IF S2.err = NoErr /\ S2.mouse.updating_distances
          THEN set_distance_is_confirmed(S2, TRUE)
          ELSE S2

RECURSIVE move_steps(_, _)
move_steps(S, n) == IF n = 0 \/ S.err # NoErr THEN S ELSE move_steps(move_step(S), n - 1)

\* Mouse.move_forward(distance).  The arguments of PathBlockedException are
\* evaluated first: get_cell of a front position out of bounds is an
\* IndexError.
move_forward(S, distance) ==
  IF S.err # NoErr THEN S
  ELSE LET C == called(S, "move_forward")
       IN IF API_wallFront(C.sim)
          THEN IF get_cell(C.maze, get_front(C.mouse)) = None THEN raise(C, "IndexError")
               ELSE raise(C, "PathBlockedException")
          ELSE IF sim_crash(C.sim, distance)
          THEN raise([C EXCEPT !.sim = API_moveForward(@, distance)], "MouseCrashedError")
          ELSE move_steps([C EXCEPT !.sim = API_moveForward(@, distance)], distance)

\* Mouse.turn_towards_neighbor(neighbor), neighbor a cell reference.
turn_towards_neighbor(S, neighbor) ==
  IF S.err # NoErr THEN S
  ELSE LET position == S.maze.cells[neighbor].position
       IN IF position = get_front(S.mouse) THEN S
          ELSE IF position = get_left(S.mouse) THEN turn_left(S)
          ELSE IF position = get_right(S.mouse) THEN turn_right(S)
          ELSE IF position = get_back(S.mouse) THEN turn_around(S, TRUE)
          ELSE raise(S, "NotANeighborException")

\* Mouse.get_reachable_neighbors: the state after the call (it may turn the
\* mouse around) with the list returned in the field neighbors.
Mouse_get_reachable_neighbors(S) ==
  LET one(wall, position) ==
        IF ~wall /\ contains(S.maze, position) THEN <<get_cell(S.maze, position)>>
        ELSE <<>>
      neighbors == one(API_wallFront(S.sim), get_front(S.mouse))
                   \o one(API_wallLeft(S.sim), get_left(S.mouse))
                   \o one(API_wallRight(S.sim), get_right(S.mouse))
      T == turn_around(S, TRUE)
  IN IF S.err # NoErr THEN [state |-> S, neighbors |-> <<>>]
     ELSE IF Len(neighbors) = 0
     THEN [state |-> T,
           neighbors |-> IF ~API_wallFront(T.sim) /\ contains(T.maze, get_front(T.mouse))
                         THEN <<get_cell(T.maze, get_front(T.mouse))>> ELSE <<>>]
     ELSE [state |-> S, neighbors |-> neighbors]

\* sense_walls that asks for the wall in front only.
sense_walls_in_front(S) ==
  IF S.err # NoErr THEN S
  ELSE IF API_wallFront(S.sim)
  THEN [called(S, "sense_walls")
          EXCEPT !.maze = Maze_set_wall(@, S.mouse.cell, S.mouse.direction)]
  ELSE called(S, "sense_walls")

\* Mouse.sense_walls
sense_walls(S) ==
  LET sense(T, wall, d) ==
        IF wall THEN [T EXCEPT !.maze = Maze_set_wall(@, T.mouse.cell, d)] ELSE T
      d == S.mouse.direction
  IN IF S.err # NoErr THEN S
     ELSE sense(sense(sense(called(S, "sense_walls"), API_wallFront(S.sim), d),
                      API_wallLeft(S.sim), minus_90(d)),
                API_wallRight(S.sim), plus_90(d))

\* Mouse.__init__(position, direction, maze), the simulated mouse being at
\* the same pose; trail lists the positions self.position is assigned later
\* and calls the calls of sense_walls, of the flood fill, of the selection of
\* a neighbor and of move_forward.
Mouse(m, sm, position, direction) ==
  LET S == State(m,
                 [position |-> position, direction |-> direction,
                  cell |-> get_cell(m, position), visited |-> {},
                  updating_distances |-> TRUE, trail |-> <<>>, calls |-> <<>>],
                 sm)
  IN sense_walls(S)

\* Mouse.get_turns(neighbor): None when neighbor is none of the four cells
\* around the mouse (desired_direction.value is then an AttributeError).
get_turns(m, ms, neighbor) ==
  LET position == m.cells[neighbor].position
      desired_direction ==
        IF position = get_front(ms) THEN ms.direction
        ELSE IF position = get_left(ms) THEN minus_90(ms.direction)
        ELSE IF position = get_right(ms) THEN plus_90(ms.direction)
        ELSE IF position = get_back(ms) THEN minus_180(ms.direction)
        ELSE None
      diff == (desired_direction - ms.direction) % 4
  IN IF desired_direction = None THEN None
     ELSE IF diff < 4 - diff THEN diff ELSE 4 - diff

\* Python's a < b of two tuples of integers of the same length.
tuple_lt(a, b) ==
  LET differ == {k \in DOMAIN a : a[k] # b[k]}
  IN differ # {} /\ LET k == CHOOSE j \in differ : \A i \in differ : j <= i
                    IN a[k] < b[k]

\* Python's min(cells, key=...) given the keys: the first cell of the list
\* whose key is not above any other.  min of an empty list is a ValueError;
\* keys whose first component is None for one cell and an integer for
\* another are compared by None < int, a TypeError.
min_by_key(cells, keys) ==
  IF Len(cells) = 0 THEN [err |-> "ValueError", cell |-> None]
  ELSE IF \E j, k \in DOMAIN keys : keys[j][1] = None /\ keys[k][1] # None
  THEN [err |-> "TypeError", cell |-> None]
  ELSE [err |-> NoErr,
        cell |-> cells[CHOOSE k \in DOMAIN keys :
                         /\ \A j \in DOMAIN keys : ~tuple_lt(keys[j], keys[k])
                         /\ \A j \in 1..(k - 1) : tuple_lt(keys[k], keys[j])]]

\* Mouse.get_best_candidate(reachable_neighbors)
get_best_candidate(S, reachable_neighbors) ==
  LET heuristic(neighbor) ==
        <<S.maze.cells[neighbor].distance_to_goal,
          IF in_visited(S.maze, S.mouse.visited, neighbor) THEN 1 ELSE 0,
          get_turns(S.maze, S.mouse, neighbor)>>
      keys == [k \in DOMAIN reachable_neighbors |-> heuristic(reachable_neighbors[k])]
  IN IF \E k \in DOMAIN keys : keys[k][3] = None
     THEN [err |-> "AttributeError", cell |-> None]
     ELSE min_by_key(reachable_neighbors, keys)

\* The turn and the move that end a pass of the two loops, toward the cell
\* chosen among the reachable neighbors R.neighbors.
turn_and_move(R, chosen) ==
  IF R.state.err # NoErr THEN R.state
  ELSE IF chosen.err # NoErr THEN raise(called(R.state, "select"), chosen.err)
  ELSE move_forward(turn_towards_neighbor(called(R.state, "select"), chosen.cell), 1)

\* One pass of `while self.position != goal` of find_goal_explore.
find_goal_explore_pass(S, goal_position) ==
  LET S1 == sense_walls(S)
      S2 == IF S1.err # NoErr THEN S1
            ELSE [called(S1, "update_flood_fill_distances")
                    EXCEPT !.maze = update_flood_fill_distances(@, goal_position, FALSE)]
      S3 == set_distance_is_confirmed(S2, TRUE)
      R == Mouse_get_reachable_neighbors(S3)
  IN turn_and_move(R, get_best_candidate(R.state, R.neighbors))

\* self.maze.update_flood_fill_distances(target, returning=..., draw=...):
\* the method has no parameter returning (it is named start), a TypeError.
update_flood_fill_distances_returning(S, target, returning) ==
  IF S.err # NoErr THEN S ELSE raise(S, "TypeError")

\* One pass of `while self.position != start` of return_to_start.
return_to_start_pass(S, start_position, goal_position) ==
  LET S1 == sense_walls(S)
      S2 == update_flood_fill_distances_returning(S1, goal_position, FALSE)
      S3 == update_flood_fill_distances_returning(S2, start_position, TRUE)
      R == Mouse_get_reachable_neighbors(S3)
      keys == [k \in DOMAIN R.neighbors |->
                 <<R.state.maze.cells[R.neighbors[k]].distance_to_start>>]
  IN turn_and_move(R, min_by_key(R.neighbors, keys))

\* Mouse.turn_to_direction(direction)
turn_to_direction(S, direction) ==
  IF S.err # NoErr THEN S
  ELSE IF direction = S.mouse.direction THEN S
  ELSE IF direction = minus_90(S.mouse.direction) THEN turn_left(S)
  ELSE IF direction = plus_90(S.mouse.direction) THEN turn_right(S)
  ELSE IF direction = minus_180(S.mouse.direction) THEN turn_around(S, TRUE)
  ELSE raise(S, "ValueError")

\* Mouse.turn_to_target(target), target a cell reference; the axis returned
\* is 0 (x) or 1 (y).
turn_to_target(S, target) ==
  LET target_position == S.maze.cells[target].position
      position == S.mouse.position
  IN IF S.err # NoErr THEN [state |-> S, axis |-> None]
     ELSE IF ~(target_position[1] = position[1] \/ target_position[2] = position[2])
     THEN [state |-> raise(S, "ValueError"), axis |-> None]
     ELSE IF target_position = position
     THEN [state |-> raise(S, "ValueError"), axis |-> None]
     ELSE IF target_position[2] = position[2]
     THEN [state |-> turn_to_direction(S, IF target_position[1] > position[1]
                                          THEN EAST ELSE WEST),
           axis |-> 0]
     ELSE [state |-> turn_to_direction(S, IF target_position[2] > position[2]
                                          THEN NORTH ELSE SOUTH),
           axis |-> 1]

\* Mouse.move_to_target_infront(target, axis)
move_to_target_infront(S, target, axis) ==
  LET target_position == S.maze.cells[target].position
      position == S.mouse.position
      k == IF axis = 0 THEN 1 ELSE 2
  IN IF S.err # NoErr THEN S
     ELSE IF target_position[k] > position[k]
     THEN move_forward(S, target_position[k] - position[k])
     ELSE move_forward(S, position[k] - target_position[k])

\* `for cell in path[1:]` of follow_path, from element k of path.
RECURSIVE follow_from(_, _, _)
follow_from(S, path, k) ==
  IF S.err # NoErr \/ k > Len(path) THEN S
  ELSE LET T == turn_to_target(S, path[k])
       IN follow_from(move_to_target_infront(T.state, path[k], T.axis), path, k + 1)

\* Mouse.follow_path(path), path a list of cell references.
follow_path(S, path) == follow_from(S, path, 2)

\* --------------------------------------------------------- the specifications

\* Cell b is one wall-free step from cell a.
Open(m, a, b) ==
  \E d \in 0..3 :
    /\ add_to_position(d, m.cells[a].position) = m.cells[b].position
    /\ ~m.cells[a].walls[d]

\* The cells of a path.
Range(path) == {path[k] : k \in DOMAIN path}

\* The sizes a maze of at most n cells can have: API.mazeWidth() by
\* API.mazeHeight() cells.
Dimensions(n) == {wh \in (1..n) \X (1..n) : wh[1] * wh[2] <= n}

Positions(m) == {m.cells[i].position : i \in DOMAIN m.cells}

\* The walls between two cells of the maze, each counted once.
InteriorWalls(m) ==
  {id \in (DOMAIN m.cells) \X {NORTH, EAST} :
     /\ contains(m, add_to_position(id[2], m.cells[id[1]].position))
     /\ m.cells[id[1]].walls[id[2]]}

\* No Mouse and no simulator take part in a specification of the grid alone.
NoMouse ==
  [position |-> <<0, 0>>, direction |-> NORTH, cell |-> None, visited |-> {},
   updating_distances |-> FALSE, trail |-> <<>>, calls |-> <<>>]

NoSim == Simulator(Maze(1, 1), <<0, 0>>, NORTH)

\* The outcome of the last call: its name, its arguments, the path it
\* returned (found) or the None it returned (~found), the exception it
\* raised, and for find_fastest_path the cost of the item it returned from.
Ret(op, args, path, found, err) ==
  [op |-> op, args |-> args, path |-> path, found |-> found, err |-> err, cost |-> 0,
   ref |-> [trail |-> <<>>, position |-> <<0, 0>>, direction |-> NORTH, cmds |-> <<>>,
           err |-> NoErr]]

NoRet == Ret("none", <<>>, <<>>, FALSE, NoErr)

\* A client of the grid: maze = Maze(width, height), nothing else yet.
InitMaze ==
  /\ \E wh \in Dimensions(MaxCells) : maze = Maze(wh[1], wh[2])
  /\ mouse = NoMouse
  /\ sim = NoSim
  /\ start = <<0, 0>>
  /\ goal = <<0, 0>>
  /\ pc = "client"
  /\ ret = NoRet

\* maze.set_wall(maze.cells[i], d)
MazeSetWall(i, d) ==
  /\ pc = "client"
  /\ Cardinality(InteriorWalls(Maze_set_wall(maze, i, d))) <= MaxWalls
  /\ maze' = Maze_set_wall(maze, i, d)
  /\ ret' = Ret("set_wall", <<>>, <<>>, FALSE, NoErr)
  /\ UNCHANGED <<mouse, sim, start, goal, pc>>

\* maze.update_flood_fill_distances(target, start=st)
UpdateFloodFillDistances(target, st) ==
  /\ pc = "client"
  /\ maze' = update_flood_fill_distances(maze, target, st)
  /\ ret' = Ret("update_flood_fill_distances", <<target, st>>, <<>>, FALSE, NoErr)
  /\ UNCHANGED <<mouse, sim, start, goal, pc>>

NextMaze ==
  \/ \E i \in DOMAIN maze.cells, d \in 0..3 : MazeSetWall(i, d)
  \/ \E target \in Positions(maze), st \in BOOLEAN : UpdateFloodFillDistances(target, st)

MazeSpec == InitMaze /\ [][NextMaze]_vars

\* The places a wall between two cells can be, each named once: the cell
\* and the direction NORTH or EAST of the wall.
InteriorEdges(m) ==
  {id \in (DOMAIN m.cells) \X {NORTH, EAST} :
     contains(m, add_to_position(id[2], m.cells[id[1]].position))}

\* maze.set_wall(maze.cells[i], d) for every <<i, d>> of the set W.
RECURSIVE set_walls(_, _)
set_walls(m, W) ==
  IF W = {} THEN m
  ELSE LET id == CHOOSE x \in W : TRUE
       IN set_walls(Maze_set_wall(m, id[1], id[2]), W \ {id})

\* A client of the grid that plans a route from start to goal, as Main.py
\* does from its start (0, 0): the maze with the walls recorded so far.
InitPath ==
  /\ \E wh \in Dimensions(MaxPathCells) :
       \E W \in SUBSET InteriorEdges(Maze(wh[1], wh[2])) :
         /\ Cardinality(W) <= MaxPathWalls
         /\ maze = set_walls(Maze(wh[1], wh[2]), W)
  /\ mouse = NoMouse
  /\ sim = NoSim
  /\ start = <<0, 0>>
  /\ goal \in Positions(maze)
  /\ pc = "client"
  /\ ret = NoRet

\* maze.cells[i].set_confirmed_distance(True)
SetConfirmedDistance(i) ==
  /\ pc = "client"
  /\ maze' = [maze EXCEPT !.cells[i] = set_confirmed_distance(@, TRUE)]
  /\ ret' = Ret("set_confirmed_distance", <<>>, <<>>, FALSE, NoErr)
  /\ UNCHANGED <<mouse, sim, start, goal, pc>>

\* maze.find_fastest_path(start, goal)
FindFastestPath ==
  /\ pc = "client"
  /\ LET r == find_fastest_path(maze, start, goal)
     IN ret' = [Ret("find_fastest_path", <<start, goal>>, r.path, r.found, r.err)
                  EXCEPT !.cost = r.cost]
  /\ UNCHANGED <<maze, mouse, sim, start, goal, pc>>

NextPath ==
  \/ \E i \in DOMAIN maze.cells : SetConfirmedDistance(i)
  \/ UpdateFloodFillDistances(goal, FALSE)
  \/ FindFastestPath

PathSpec == InitPath /\ [][NextPath]_vars

\* The mazes of at most n cells with at most k interior walls.
Mazes(n, k) ==
  UNION {{set_walls(Maze(wh[1], wh[2]), W) :
            W \in {V \in SUBSET InteriorEdges(Maze(wh[1], wh[2])) : Cardinality(V) <= k}} :
         wh \in Dimensions(n)}

\* maze = Maze(width, height) and mouse = Mouse(position, direction, maze)
\* in the real maze real, as Main.py makes them.
Constructed(real, position, direction) ==
  LET S == Mouse(Maze(real.width, real.height),
                 Simulator(real, position, direction), position, direction)
  IN maze = S.maze /\ mouse = S.mouse /\ sim = S.sim

\* A driver that runs the phases in the order of Main.py, for any maze, any
\* first pose of the mouse and any start and goal (Main.py: the pose
\* (0, 0) NORTH, start (0, 0), goal the middle cell).
Init ==
  /\ \E real \in Mazes(MaxCells, MaxWalls) :
       \E position \in Positions(real), direction \in 0..3 :
         Constructed(real, position, direction)
  /\ start \in Positions(maze)
  /\ goal \in Positions(maze)
  /\ pc = "find_goal_explore"
  /\ ret = NoRet

\* The state after a call that ended in state S: the program stops on an
\* exception, nothing in Main.py catches one.
Outcome(S, op, next) ==
  /\ maze' = S.maze
  /\ mouse' = S.mouse
  /\ sim' = S.sim
  /\ ret' = Ret(op, <<>>, <<>>, FALSE, S.err)
  /\ pc' = IF S.err = NoErr THEN next ELSE "error"
  /\ UNCHANGED <<start, goal>>

\* One pass of the loop of mouse.find_goal_explore(goal).
ExploreStep ==
  /\ pc = "find_goal_explore"
  /\ mouse.position # goal
  /\ Outcome(find_goal_explore_pass(State(maze, mouse, sim), goal),
             "find_goal_explore", "find_goal_explore")

\* find_goal_explore with the test of its loop after the pass instead of
\* before it.
ExploreDone_after_pass ==
  /\ pc = "find_goal_explore"
  /\ mouse.position = goal
  /\ Outcome(find_goal_explore_pass(State(maze, mouse, sim), goal),
             "find_goal_explore", "return_to_start")

\* The loop of find_goal_explore ends.
ExploreDone ==
  /\ pc = "find_goal_explore"
  /\ mouse.position = goal
  /\ Outcome(State(maze, mouse, sim), "find_goal_explore", "return_to_start")

\* One pass of the loop of mouse.return_to_start(start, goal).
ReturnStep ==
  /\ pc = "return_to_start"
  /\ mouse.position # start
  /\ Outcome(return_to_start_pass(State(maze, mouse, sim), start, goal),
             "return_to_start", "return_to_start")

\* The loop of return_to_start ends.
ReturnDone ==
  /\ pc = "return_to_start"
  /\ mouse.position = start
  /\ Outcome(State(maze, mouse, sim), "return_to_start", "find_fastest_path")

\* fastest_path = maze.find_fastest_path(start, goal)
PlanPath ==
  /\ pc = "find_fastest_path"
  /\ LET r == find_fastest_path(maze, start, goal)
     IN /\ ret' = [Ret("find_fastest_path", <<start, goal>>, r.path, r.found, r.err)
                     EXCEPT !.cost = r.cost]
        /\ pc' = IF r.err = NoErr THEN "follow_path" ELSE "error"
  /\ UNCHANGED <<maze, mouse, sim, start, goal>>

\* mouse.follow_path(fastest_path); path[1:] of None is a TypeError.
ReplayPath ==
  /\ pc = "follow_path"
  /\ Outcome(IF ret.found THEN follow_path(State(maze, mouse, sim), ret.path)
             ELSE raise(State(maze, mouse, sim), "TypeError"),
             "follow_path", "find_goal_fast")

\* mouse.find_goal_fast(goal): Mouse defines no method of this name, an
\* AttributeError.
FindGoalFast ==
  /\ pc = "find_goal_fast"
  /\ Outcome(raise(State(maze, mouse, sim), "AttributeError"), "find_goal_fast", "done")

Next ==
  \/ ExploreStep
  \/ ExploreDone
  \/ ReturnStep
  \/ ReturnDone
  \/ PlanPath
  \/ ReplayPath
  \/ FindGoalFast

Spec == Init /\ [][Next]_vars

\* A client of a Mouse in a real maze that calls its methods in any order
\* until one raises.
InitMouse ==
  /\ \E real \in Mazes(MaxCells, MaxWalls) :
       \E position \in Positions(real), direction \in 0..3 :
         Constructed(real, position, direction)
  /\ start = <<0, 0>>
  /\ goal = <<0, 0>>
  /\ pc = "mouse"
  /\ ret = NoRet

\* The state a call of the client starts from: trail and cmds list what the
\* call itself does.
Called ==
  State(maze, [mouse EXCEPT !.trail = <<>>, !.calls = <<>>], [sim EXCEPT !.cmds = <<>>])

\* The state after a call of the client that ended in state S.
Answer(S, op, args) ==
  /\ maze' = S.maze
  /\ mouse' = S.mouse
  /\ sim' = S.sim
  /\ ret' = Ret(op, args, <<>>, FALSE, S.err)
  /\ pc' = IF S.err = NoErr THEN "mouse" ELSE "error"
  /\ UNCHANGED <<start, goal>>

TurnLeft == pc = "mouse" /\ Answer(turn_left(Called), "turn_left", <<>>)

TurnRight == pc = "mouse" /\ Answer(turn_right(Called), "turn_right", <<>>)

TurnAround(left) == pc = "mouse" /\ Answer(turn_around(Called, left), "turn_around", <<left>>)

MoveForward(distance) ==
  pc = "mouse" /\ Answer(move_forward(Called, distance), "move_forward", <<distance>>)

TurnTowardsNeighbor(neighbor) ==
  /\ pc = "mouse"
  /\ Answer(turn_towards_neighbor(Called, neighbor), "turn_towards_neighbor", <<neighbor>>)

GetReachableNeighbors ==
  /\ pc = "mouse"
  /\ LET R == Mouse_get_reachable_neighbors(Called)
     IN Answer(R.state, "get_reachable_neighbors", R.neighbors)

SenseWalls == pc = "mouse" /\ Answer(sense_walls(Called), "sense_walls", <<>>)

\* The paths of at most n more edges that extend path p over edges open in
\* maze m and enter no cell twice.
RECURSIVE Walks(_, _, _)
Walks(m, p, n) ==
  {p} \cup
  (IF n = 0 THEN {}
   ELSE UNION {Walks(m, Append(p, b), n - 1) :
                 b \in {c \in DOMAIN m.cells : Open(m, p[Len(p)], c) /\ c \notin Range(p)}})

\* A path with its straight runs compacted: the first cell, the cell at
\* every corner and the last cell.
Compact(m, path) ==
  LET keep(k) ==
        \/ k = 1
        \/ k = Len(path)
        \/ ~is_straight(m.cells[path[k - 1]].position, m.cells[path[k]].position,
                        m.cells[path[k + 1]].position)
      RECURSIVE from(_)
      from(k) == IF k > Len(path) THEN <<>>
                 ELSE (IF keep(k) THEN <<path[k]>> ELSE <<>>) \o from(k + 1)
  IN from(1)

\* mouse.follow_path of the path compacted; ret.ref is where follow_path of
\* the path itself, cell by cell, leads from the same state and what it sends
\* to the simulator.
FollowPath(path) ==
  /\ pc = "mouse"
  /\ LET S == follow_path(Called, Compact(maze, path))
         E == follow_path(Called, path)
     IN /\ maze' = S.maze
        /\ mouse' = S.mouse
        /\ sim' = S.sim
        /\ ret' = [Ret("follow_path", path, <<>>, FALSE, S.err) EXCEPT
                     !.ref = [trail |-> E.mouse.trail, position |-> E.mouse.position,
                              direction |-> E.mouse.direction, cmds |-> E.sim.cmds,
                              err |-> E.err]]
        /\ pc' = IF S.err = NoErr THEN "mouse" ELSE "error"
  /\ UNCHANGED <<start, goal>>

NextMouse ==
  \/ TurnLeft
  \/ TurnRight
  \/ \E left \in BOOLEAN : TurnAround(left)
  \/ \E distance \in 1..MaxMove : MoveForward(distance)
  \/ \E neighbor \in DOMAIN maze.cells : TurnTowardsNeighbor(neighbor)
  \/ GetReachableNeighbors
  \/ SenseWalls
  \/ \E path \in Walks(sim.maze, <<mouse.cell>>, MaxEdges) : FollowPath(path)

MouseSpec == InitMouse /\ [][NextMouse]_vars

\* A client of a Mouse that floods the maze toward goal, senses, turns and
\* moves one cell at a time, and asks get_best_candidate to choose among
\* cells next to the mouse.  It catches the AttributeError of move_forward
\* (Mouse.py:136), raised after the mouse has entered the cell and added it
\* to visited, and goes on.
InitCandidate ==
  /\ \E real \in Mazes(MaxCandCells, MaxCandWalls) :
       \E position \in Positions(real), direction \in 0..3 :
         Constructed(real, position, direction)
  /\ start = <<0, 0>>
  /\ goal \in Positions(maze)
  /\ pc = "candidate"
  /\ ret = NoRet

\* The state after a call of this client that ended in state S, whatever it
\* raised.
Caught(S) ==
  /\ maze' = S.maze
  /\ mouse' = [S.mouse EXCEPT !.trail = <<>>, !.calls = <<>>]
  /\ sim' = [S.sim EXCEPT !.cmds = <<>>]
  /\ ret' = NoRet
  /\ UNCHANGED <<start, goal, pc>>

CandidateFlood ==
  /\ pc = "candidate"
  /\ Caught([Called EXCEPT !.maze = update_flood_fill_distances(@, goal, FALSE)])

\* self.sense_walls() called by the client, which raises nothing.
CandidateSense ==
  /\ pc = "candidate"
  /\ LET S == sense_walls(Called)
     IN /\ maze' = S.maze
        /\ mouse' = [S.mouse EXCEPT !.trail = <<>>, !.calls = <<>>]
        /\ sim' = [S.sim EXCEPT !.cmds = <<>>]
        /\ ret' = Ret("sense_walls", <<>>, <<>>, FALSE, S.err)
  /\ UNCHANGED <<start, goal, pc>>

CandidateTurnLeft == pc = "candidate" /\ Caught(turn_left(Called))

CandidateTurnRight == pc = "candidate" /\ Caught(turn_right(Called))

CandidateMove == pc = "candidate" /\ Caught(move_forward(Called, 1))

\* The lists without repetition of cells of the set A.
Lists(A) ==
  {q \in UNION {[1..n -> A] : n \in 1..Cardinality(A)} :
     \A j, k \in DOMAIN q : q[j] = q[k] => j = k}

\* The cells of maze m one step from position, walls or not.
Around(m, position) ==
  {i \in DOMAIN m.cells : \E d \in 0..3 : add_to_position(d, position) = m.cells[i].position}

\* get_best_candidate(reachable_neighbors): ret.path holds the cell returned.
GetBestCandidate(reachable_neighbors) ==
  /\ pc = "candidate"
  /\ LET r == get_best_candidate(Called, reachable_neighbors)
     IN ret' = Ret("get_best_candidate", reachable_neighbors,
                   IF r.err = NoErr THEN <<r.cell>> ELSE <<>>, r.err = NoErr, r.err)
  /\ mouse' = [mouse EXCEPT !.trail = <<>>, !.calls = <<>>]
  /\ sim' = [sim EXCEPT !.cmds = <<>>]
  /\ UNCHANGED <<maze, start, goal, pc>>

NextCandidate ==
  \/ CandidateFlood
  \/ CandidateSense
  \/ CandidateTurnLeft
  \/ CandidateTurnRight
  \/ CandidateMove
  \/ \E reachable_neighbors \in Lists(Around(maze, mouse.position)) :
       GetBestCandidate(reachable_neighbors)

CandidateSpec == InitCandidate /\ [][NextCandidate]_vars

\* A client of a new Maze that looks positions up, in the grid and around
\* it, and counts the corners of lists of its cells.
InitQuery ==
  /\ \E wh \in Dimensions(MaxCells) : maze = Maze(wh[1], wh[2])
  /\ mouse = NoMouse
  /\ sim = NoSim
  /\ start = <<0, 0>>
  /\ goal = <<0, 0>>
  /\ pc = "client"
  /\ ret = NoRet

\* maze.get_cell(position): ret.path holds the cell returned, ret.err the
\* IndexError.
GetCell(position) ==
  /\ pc = "client"
  /\ LET cell == get_cell(maze, position)
     IN ret' = Ret("get_cell", position, IF cell = None THEN <<>> ELSE <<cell>>,
                   cell # None, IF cell = None THEN "IndexError" ELSE NoErr)
  /\ UNCHANGED <<maze, mouse, sim, start, goal, pc>>

\* maze.count_corners(path): ret.path holds the number returned.
CountCorners(path) ==
  /\ pc = "client"
  /\ ret' = Ret("count_corners", path, <<count_corners(maze, path)>>, TRUE, NoErr)
  /\ UNCHANGED <<maze, mouse, sim, start, goal, pc>>

NextQuery ==
  \/ \E x \in (0 - MaxBeyond)..(maze.width - 1 + MaxBeyond),
        y \in (0 - MaxBeyond)..(maze.height - 1 + MaxBeyond) : GetCell(<<x, y>>)
  \/ \E path \in UNION {[1..n -> DOMAIN maze.cells] : n \in 0..MaxCornerLen} :
       CountCorners(path)

QuerySpec == InitQuery /\ [][NextQuery]_vars

\* ------------------------------------------------------------------ claims

\* The cells at most k wall-free steps from cell t.
RECURSIVE Ball(_, _, _)
Ball(m, t, k) ==
  IF k = 0 THEN {t}
  ELSE LET B == Ball(m, t, k - 1)
       IN B \cup {b \in DOMAIN m.cells : \E a \in B : Open(m, a, b)}

\* The shortest hop count from cell t to cell c, None when there is no route.
HopCount(m, t, c) ==
  LET n == Len(m.cells)
  IN IF c \notin Ball(m, t, n) THEN None
     ELSE CHOOSE k \in 0..n :
            /\ c \in Ball(m, t, k)
            /\ \A j \in 0..(k - 1) : c \notin Ball(m, t, j)

SymmetricWalls(m) ==
  \A i \in DOMAIN m.cells, d \in 0..3 :
    LET neighbor == add_to_position(d, m.cells[i].position)
    IN contains(m, neighbor) =>
         (m.cells[i].walls[d] <=> m.cells[get_cell(m, neighbor)].walls[minus_180(d)])

\* C1: after update_flood_fill_distances(target, start=st) the selected field
\* of every cell is its shortest hop count from target over wall-free edges,
\* 0 at target, and None at the cells with no route from target.
FloodFillCorrect ==
  ret.op = "update_flood_fill_distances" =>
    \A c \in DOMAIN maze.cells :
      get_distance(maze.cells[c], ret.args[2]) =
        HopCount(maze, get_cell(maze, ret.args[1]), c)

\* C1's case: a flood fill over a maze with a cell cut off from the target
\* and a cell three or more steps away.
FloodFillCase ==
  /\ ret.op = "update_flood_fill_distances"
  /\ \E c \in DOMAIN maze.cells : get_distance(maze.cells[c], ret.args[2]) = None
  /\ \E c \in DOMAIN maze.cells : get_distance(maze.cells[c], ret.args[2]) >= 3

\* C2: in every state, for every two adjacent cells A and B, A has a wall
\* toward B exactly when B has a wall toward A.
WallSymmetry == SymmetricWalls(maze)

\* C2's case: a wall between two cells has been set.
WallSymmetryCase == ret.op = "set_wall" /\ InteriorWalls(maze) # {}

\* The routes from the last cell of path p to the cell at position g that
\* use wall-free edges, enter confirmed cells only and enter no cell twice.
RECURSIVE Routes(_, _, _)
Routes(m, p, g) ==
  LET last == p[Len(p)]
      next == {b \in DOMAIN m.cells :
                 /\ Open(m, last, b)
                 /\ b \notin Range(p)
                 /\ m.cells[b].confirmed_distance}
  IN IF m.cells[last].position = g THEN {p}
     ELSE UNION {Routes(m, Append(p, b), g) : b \in next}

\* The cost of a path as the specification states it.
Cost(m, path) == 2 * count_corners(m, path) + 1 * (Len(path) - 1)

\* The goal field holds a flood fill toward goal, as before every search of
\* the program.
Flooded == maze.cells[get_cell(maze, goal)].distance_to_goal = 0

Returned == ret.op = "find_fastest_path" /\ ret.err = NoErr /\ ret.found

\* C3: a path returned by find_fastest_path(start, goal) costs no more, at
\* 2 per corner and 1 per edge, than any other route from start to goal
\* over wall-free edges and confirmed cells.
AStarOptimal ==
  (Returned /\ Flooded /\ maze.cells[get_cell(maze, start)].confirmed_distance) =>
    \A q \in Routes(maze, <<get_cell(maze, start)>>, goal) :
      Cost(maze, ret.path) <= Cost(maze, q)

\* What C4 says of a returned path but for the confirmed cells: it leads from
\* start to goal over wall-free edges between adjacent cells and holds no
\* cell twice.
IsRoute(m, path, s, g) ==
  /\ Len(path) >= 1
  /\ m.cells[path[1]].position = s
  /\ m.cells[path[Len(path)]].position = g
  /\ \A k \in 1..(Len(path) - 1) : Open(m, path[k], path[k + 1])
  /\ \A j, k \in DOMAIN path : path[j] = path[k] => j = k

\* C4 as claimed: a returned path is a route from start to goal and every
\* cell on it is confirmed.
PathAllConfirmed ==
  Returned =>
    /\ IsRoute(maze, ret.path, start, goal)
    /\ \A k \in DOMAIN ret.path : maze.cells[ret.path[k]].confirmed_distance

\* C4 as amended: a returned path is a route from start to goal and every
\* cell on it after the first is confirmed.
PathConfirmedAfterStart ==
  Returned =>
    /\ IsRoute(maze, ret.path, start, goal)
    /\ \A k \in 2..Len(ret.path) : maze.cells[ret.path[k]].confirmed_distance

\* C4's case: a path of three edges or more is returned from a start cell
\* that is not confirmed.
PathReturnedCase ==
  /\ Returned
  /\ Len(ret.path) >= 4
  /\ ~maze.cells[get_cell(maze, start)].confirmed_distance

\* C5: find_fastest_path returns None exactly when no route over wall-free
\* edges and confirmed cells leads from start to goal, and a path otherwise.
SearchFailsExactly ==
  (ret.op = "find_fastest_path" /\ Flooded) =>
    /\ ret.err = NoErr
    /\ ret.found <=> Routes(maze, <<get_cell(maze, start)>>, goal) # {}

\* C6: a confirmed cell stays confirmed in every step.
MonotonicConfirmation ==
  [][\A i \in DOMAIN maze.cells :
       maze.cells[i].confirmed_distance => maze'.cells[i].confirmed_distance]_vars

\* C6's case: a flood fill or a search has run over a confirmed cell.
ConfirmedKeptCase ==
  /\ ret.op \in {"update_flood_fill_distances", "find_fastest_path"}
  /\ \E i \in DOMAIN maze.cells : maze.cells[i].confirmed_distance

\* Position b can be reached from position a over the wall-free edges of
\* maze m.
Reachable(m, a, b) == HopCount(m, get_cell(m, a), get_cell(m, b)) # None

\* C7: in a maze whose goal can be reached from the cell of the mouse, the
\* loop of find_goal_explore does not stop before the mouse is at the goal:
\* no pass of it ends the run.
ExploreTerminates ==
  (ret.op = "find_goal_explore" /\ Reachable(sim.maze, mouse.position, goal)) =>
    pc # "error"

\* C8: begun at the goal after find_goal_explore has ended, in a maze whose
\* start can be reached from the goal, the loop of return_to_start does not
\* stop before the mouse is at the start: no pass of it ends the run.
ReturnTerminates ==
  (ret.op = "return_to_start" /\ Reachable(sim.maze, mouse.position, start)) =>
    pc # "error"

PoseLockstep ==
  ret.err # "MouseCrashedError" =>
    /\ mouse.position = sim.position
    /\ mouse.direction = sim.direction
    /\ mouse.cell = get_cell(maze, mouse.position)

\* The tracked position, heading, cell and visited set, and the confirmed
\* flag of every cell, are in the next state what they are now.
TrackedUnchanged ==
  /\ mouse'.position = mouse.position
  /\ mouse'.direction = mouse.direction
  /\ mouse'.cell = mouse.cell
  /\ mouse'.visited = mouse.visited
  /\ \A i \in DOMAIN maze.cells :
       maze'.cells[i].confirmed_distance = maze.cells[i].confirmed_distance

\* C11: move_forward(n) with a wall sensed ahead raises PathBlockedException
\* and sends no command; with a crash reported it raises MouseCrashedError
\* after the one moveForward command; either way the tracked position,
\* heading, cell, visited set and confirmed flags stay as they were.
MoveForwardErrors ==
  [][(pc = "mouse" /\ ret'.op = "move_forward") =>
       /\ API_wallFront(sim) =>
            (ret'.err = "PathBlockedException" /\ sim'.cmds = <<>> /\ TrackedUnchanged)
       /\ (~API_wallFront(sim) /\ sim_crash(sim, ret'.args[1])) =>
            /\ ret'.err = "MouseCrashedError"
            /\ sim'.cmds = <<<<"moveForward", ret'.args[1]>>>>
            /\ TrackedUnchanged]_vars

\* The direction from position a to the adjacent position b, None when b is
\* not one step from a.
DirectionTo(a, b) ==
  IF \E d \in 0..3 : add_to_position(d, a) = b
  THEN CHOOSE d \in 0..3 : add_to_position(d, a) = b
  ELSE None

\* The turn commands that bring heading d to heading e.
TurnsTo(d, e) ==
  IF e = d THEN {<<>>}
  ELSE IF e = (d + 3) % 4 THEN {<<<<"turnLeft", 1>>>>}
  ELSE IF e = (d + 1) % 4 THEN {<<<<"turnRight", 1>>>>}
  ELSE {<<<<"turnLeft", 1>>, <<"turnLeft", 1>>>>, <<<<"turnRight", 1>>, <<"turnRight", 1>>>>}

\* C12: turn_towards_neighbor(neighbor) of a cell next to the mouse keeps the
\* position and ends with the mouse facing the neighbor, after no turn for the
\* cell in front, one left turn for the cell on the left, one right turn for
\* the cell on the right and a half turn for the cell behind.
TurnTowardsAdjacent ==
  [][(pc = "mouse" /\ ret'.op = "turn_towards_neighbor"
        /\ DirectionTo(mouse.position, maze.cells[ret'.args[1]].position) # None) =>
       LET e == DirectionTo(mouse.position, maze.cells[ret'.args[1]].position)
       IN /\ ret'.err = NoErr
          /\ mouse'.position = mouse.position
          /\ mouse'.cell = mouse.cell
          /\ mouse'.direction = e
          /\ sim'.direction = e
          /\ sim'.position = sim.position
          /\ sim'.cmds \in TurnsTo(mouse.direction, e)]_vars

\* C12's case: the mouse has turned to the cell that was behind it.
TurnedAroundCase ==
  /\ ret.op = "turn_towards_neighbor"
  /\ ret.err = NoErr
  /\ Len(sim.cmds) = 2
  /\ add_to_position(mouse.direction, mouse.position) = maze.cells[ret.args[1]].position

\* C13: turn_towards_neighbor(target) of a cell that is not next to the mouse
\* raises NotANeighborException, sends no turn command and keeps position and
\* heading.
TurnTowardsStranger ==
  [][(pc = "mouse" /\ ret'.op = "turn_towards_neighbor"
        /\ DirectionTo(mouse.position, maze.cells[ret'.args[1]].position) = None) =>
       /\ ret'.err = "NotANeighborException"
       /\ sim'.cmds = <<>>
       /\ sim'.direction = sim.direction
       /\ mouse'.position = mouse.position
       /\ mouse'.direction = mouse.direction]_vars

\* C13's case: the call was refused for a cell two steps or more from the
\* mouse, in line with it.
StrangerRefusedCase ==
  /\ ret.op = "turn_towards_neighbor"
  /\ ret.err = "NotANeighborException"
  /\ maze.cells[ret.args[1]].position # mouse.position
  /\ \/ maze.cells[ret.args[1]].position[1] = mouse.position[1]
     \/ maze.cells[ret.args[1]].position[2] = mouse.position[2]

\* The key C14 ranks a cell next to the mouse by: its goal distance, whether
\* it has been added to the visited set, and the quarter turns from the
\* heading of the mouse to the cell.
CandidateKey(i) ==
  LET e == DirectionTo(mouse.position, maze.cells[i].position)
      diff == (e - mouse.direction + 4) % 4
  IN <<maze.cells[i].distance_to_goal,
       IF \E v \in mouse.visited : v[1] = i THEN 1 ELSE 0,
       IF diff = 3 THEN 1 ELSE diff>>

\* Key a is below key b, an unknown distance counting as above every known
\* one.
KeyBelow(a, b) ==
  LET inf(x) == IF x = None THEN 1000 ELSE x
  IN tuple_lt(<<inf(a[1]), a[2], a[3]>>, <<inf(b[1]), b[2], b[3]>>)

\* C14: get_best_candidate of a non-empty list of cells next to the mouse
\* returns a cell of the list whose key (goal distance, visited, turns) no
\* cell of the list is below.
BestCandidateMinimal ==
  ret.op = "get_best_candidate" =>
    /\ ret.err = NoErr
    /\ ret.path[1] \in Range(ret.args)
    /\ \A i \in Range(ret.args) : ~KeyBelow(CandidateKey(i), CandidateKey(ret.path[1]))

\* The real maze has no wall on the side d of the cell of the mouse, and the
\* position on that side is in the grid.
OpenSide(d) ==
  /\ ~sim.maze.cells[get_cell(sim.maze, mouse.position)].walls[d]
  /\ contains(maze, add_to_position(d, mouse.position))

\* The cells in front, on the left and on the right of the mouse whose side
\* is open.
OpenAhead ==
  {get_cell(maze, add_to_position(d, mouse.position)) :
     d \in {e \in {mouse.direction, (mouse.direction + 3) % 4, (mouse.direction + 1) % 4} :
              OpenSide(e)}}

\* C15: get_reachable_neighbors with front, left and right blocked and the
\* rear open turns the mouse by a half turn, in place, and returns the cell
\* that was behind it and no other; with front, left or right open it sends
\* no turn and returns the open cells among front, left and right, each once,
\* and never the cell behind.
DeadEndFallback ==
  [][(pc = "mouse" /\ ret'.op = "get_reachable_neighbors") =>
       LET back == (mouse.direction + 2) % 4
           behind == get_cell(maze, add_to_position(back, mouse.position))
       IN /\ ret'.err = NoErr
          /\ mouse'.position = mouse.position
          /\ sim'.position = sim.position
          /\ (OpenAhead = {} /\ OpenSide(back)) =>
               /\ mouse'.direction = back
               /\ sim'.direction = back
               /\ Len(sim'.cmds) = 2
               /\ ret'.args = <<behind>>
          /\ OpenAhead # {} =>
               /\ sim'.cmds = <<>>
               /\ mouse'.direction = mouse.direction
               /\ sim'.direction = sim.direction
               /\ Range(ret'.args) = OpenAhead
               /\ Len(ret'.args) = Cardinality(OpenAhead)
               /\ behind \notin Range(ret'.args)]_vars

\* C15's case: the call turned the mouse around in a dead end and returned
\* the one cell now in front of it.
DeadEndCase ==
  /\ ret.op = "get_reachable_neighbors"
  /\ Len(sim.cmds) = 2
  /\ ret.args = <<get_cell(maze, add_to_position(mouse.direction, mouse.position))>>

\* C16: get_cell of a position outside 0 <= x < width, 0 <= y < height is an
\* IndexError and returns no cell; get_cell of a position inside returns the
\* cell whose position it is.
LookupRangeChecked ==
  ret.op = "get_cell" =>
    LET x == ret.args[1]
        y == ret.args[2]
    IN IF 0 <= x /\ x < maze.width /\ 0 <= y /\ y < maze.height
       THEN /\ ret.err = NoErr
            /\ Len(ret.path) = 1
            /\ ret.path[1] \in DOMAIN maze.cells
            /\ maze.cells[ret.path[1]].position = <<x, y>>
       ELSE ret.err = "IndexError" /\ ret.path = <<>>

\* C16's case: a lookup one column past the last one in a row that has a
\* next row, where an index without range check would land in the grid.
LookupPastRowCase ==
  /\ ret.op = "get_cell"
  /\ ret.args[1] = maze.width
  /\ ret.args[2] \in 0..(maze.height - 2)
  /\ ret.err = "IndexError"

\* The number of places where two steps in a row of a list of positions
\* differ.
RECURSIVE DirectionChanges(_)
DirectionChanges(ps) ==
  IF Len(ps) < 3 THEN 0
  ELSE (IF ps[2][1] - ps[1][1] = ps[3][1] - ps[2][1] /\ ps[2][2] - ps[1][2] = ps[3][2] - ps[2][2]
        THEN 0 ELSE 1) + DirectionChanges(Tail(ps))

\* C17: count_corners(path) is the number of cells inside the path where the
\* step into the cell and the step out of it differ, 0 for a path of fewer
\* than three cells.
CornersCounted ==
  ret.op = "count_corners" =>
    /\ ret.path[1] = DirectionChanges([k \in DOMAIN ret.args |-> maze.cells[ret.args[k]].position])
    /\ Len(ret.args) < 3 => ret.path[1] = 0

\* C17's case: the corner of a path of four cells with a single turn along
\* the y axis was counted.
OneCornerCase ==
  /\ ret.op = "count_corners"
  /\ Len(ret.args) = 4
  /\ ret.path[1] = 1
  /\ \A k \in 1..3 : \E d \in 0..3 :
       add_to_position(d, maze.cells[ret.args[k]].position) = maze.cells[ret.args[k + 1]].position
  /\ maze.cells[ret.args[1]].position[1] = maze.cells[ret.args[4]].position[1] - 1

\* The number of commands named name sent to the simulator so far.
Sent(name) == Cardinality({k \in DOMAIN sim.cmds : sim.cmds[k][1] = name})

\* The mouse of this run was created at position p with heading d: the turns
\* sent so far lead from d to the heading it has, and p is where it stands
\* while it has not moved, one step from the first cell it entered otherwise.
CreatedAt(p, d) ==
  /\ (d + Sent("turnRight") + 3 * Sent("turnLeft")) % 4 = sim.direction
  /\ IF mouse.trail = <<>> THEN mouse.position = p
     ELSE \E e \in 0..3 : add_to_position(e, p) = mouse.trail[1]

\* C18: in the 2x1 maze without interior wall, the mouse created at (0, 0)
\* facing NORTH that explores to the goal (1, 0) ends find_goal_explore at
\* (1, 0) after one right turn and then one move of one cell and no other
\* command, with goal distance 1 at (0, 0) and 0 at (1, 0).
ScenarioTwoByOne ==
  (/\ maze.width = 2
   /\ maze.height = 1
   /\ InteriorWalls(sim.maze) = {}
   /\ goal = <<1, 0>>
   /\ CreatedAt(<<0, 0>>, NORTH)
   /\ ret.op = "find_goal_explore"
   /\ ret.err # NoErr \/ pc # "find_goal_explore") =>
    /\ pc = "return_to_start"
    /\ sim.cmds = <<<<"turnRight", 1>>, <<"moveForward", 1>>>>
    /\ mouse.position = <<1, 0>>
    /\ sim.position = <<1, 0>>
    /\ maze.cells[1].distance_to_goal = 1
    /\ maze.cells[2].distance_to_goal = 0

\* C19: find_goal_explore begun with the mouse at the goal ends at once: no
\* command is sent, and the mouse, the walls, the distances and the confirmed
\* flags are what they were.
ExploreAtGoal ==
  [][(pc = "find_goal_explore" /\ mouse.position = goal) =>
       /\ pc' = "return_to_start"
       /\ ret'.err = NoErr
       /\ sim' = sim
       /\ mouse' = mouse
       /\ maze' = maze]_vars

\* C19's case: find_goal_explore has ended at once in the 1x1 maze.
ExploreAtGoalCase ==
  /\ maze.width = 1
  /\ maze.height = 1
  /\ pc = "return_to_start"
  /\ ret.op = "find_goal_explore"
  /\ mouse.position = goal
  /\ sim.cmds = <<>>

\* The cell c of maze m has a wall on every side that has no cell of the grid.
BoundaryWalled(m, c) ==
  \A d \in 0..3 : ~contains(m, add_to_position(d, m.cells[c].position)) => m.cells[c].walls[d]

\* C20: a new Maze(width, height) has a wall on a side of a cell exactly when
\* no cell of the grid lies on that side, and in every later state the walls
\* on those sides are still set.
BoundaryWalls ==
  /\ ret = NoRet =>
       \A c \in DOMAIN maze.cells, d \in 0..3 :
         maze.cells[c].walls[d] <=> ~contains(maze, add_to_position(d, maze.cells[c].position))
  /\ \A c \in DOMAIN maze.cells : BoundaryWalled(maze, c)

\* C20's case: a grid of two rows and two columns after two interior walls
\* were set and a flood fill was run.
BoundaryKeptCase ==
  /\ ret.op = "update_flood_fill_distances"
  /\ maze.width >= 2
  /\ maze.height >= 2
  /\ Cardinality(InteriorWalls(maze)) >= 2

\* C21: update_flood_fill_distances of the goal distances leaves every
\* distance_to_start as it was, the one of the start distances leaves every
\* distance_to_goal as it was, and both leave the walls, the confirmed flags
\* and the mouse as they were.
DistanceFieldsIndependent ==
  [][ret'.op = "update_flood_fill_distances" =>
       /\ \A c \in DOMAIN maze.cells :
            /\ ~ret'.args[2] => maze'.cells[c].distance_to_start = maze.cells[c].distance_to_start
            /\ ret'.args[2] => maze'.cells[c].distance_to_goal = maze.cells[c].distance_to_goal
            /\ maze'.cells[c].walls = maze.cells[c].walls
            /\ maze'.cells[c].confirmed_distance = maze.cells[c].confirmed_distance
       /\ mouse' = mouse
       /\ sim' = sim]_vars

\* C21's case: the start distances were flooded over goal distances flooded
\* before from another target, which are still there.
OtherFieldKeptCase ==
  /\ ret.op = "update_flood_fill_distances"
  /\ ret.args[2]
  /\ \E c \in DOMAIN maze.cells :
       /\ maze.cells[c].distance_to_goal = 0
       /\ maze.cells[c].distance_to_start >= 2

\* A distance with None, the unknown distance, above every known one.
Infinite(distance) == IF distance = None THEN 1000 ELSE distance

\* C22: once the goal distances are flooded toward the goal, no step makes the
\* goal distance of a cell smaller: the next flood toward the same goal, after
\* the walls sensed since, gives each cell its distance or more.
DistancesNeverDecrease ==
  [][maze.cells[get_cell(maze, goal)].distance_to_goal = 0 =>
       \A c \in DOMAIN maze.cells :
         Infinite(maze'.cells[c].distance_to_goal) >= Infinite(maze.cells[c].distance_to_goal)]_vars

\* C22's case: a cell entered at a known goal distance (the visited set keeps
\* the distance the cell had then) was cut off from the goal by a wall sensed
\* later, and the next flood left it without distance.
DistanceGrownCase ==
  \E v \in mouse.visited :
    /\ v[2][3] # None
    /\ maze.cells[v[1]].distance_to_goal = None
    /\ maze.cells[get_cell(maze, goal)].distance_to_goal = 0

\* The calls the mouse made during the step.
NewCalls == SubSeq(mouse'.calls, Len(mouse.calls) + 1, Len(mouse'.calls))

\* The calls of a pass that decides where to go next: one sense_walls, then
\* the flood fills, the one of the field used last, then the selection of the
\* neighbor, before any move_forward.
DecidedAfterSensing(calls, floods) ==
  /\ Len(calls) >= floods + 2
  /\ calls[1] = "sense_walls"
  /\ \A k \in 2..(floods + 1) : calls[k] = "update_flood_fill_distances"
  /\ calls[floods + 2] = "select"

Across(d) == get_cell(maze, add_to_position(d, mouse.position))

\* C24: sense_walls sets, for each wall the simulator reports in front, on
\* the left and on the right, the wall of the mouse's cell on that side and
\* the opposite wall of the cell across it, when there is one.  The rear wall
\* of the cell, the walls of every cell other than the cell and the three
\* across, the pose and every distance stay as they were, and no wall set
\* before is cleared.
SenseWallsEffect ==
  [][ret'.op = "sense_walls" =>
       LET d == mouse.direction
           sides == {d, minus_90(d), plus_90(d)}
       IN /\ ret'.err = NoErr
          /\ \A e \in sides :
               sim_wall(sim, e) =>
                 /\ maze'.cells[mouse.cell].walls[e]
                 /\ Across(e) # None => maze'.cells[Across(e)].walls[minus_180(e)]
          /\ maze'.cells[mouse.cell].walls[minus_180(d)]
               = maze.cells[mouse.cell].walls[minus_180(d)]
          /\ \A c \in DOMAIN maze.cells :
               /\ (c # mouse.cell /\ \A e \in sides : c # Across(e))
                    => maze'.cells[c].walls = maze.cells[c].walls
               /\ \A e \in 0..3 : maze.cells[c].walls[e] => maze'.cells[c].walls[e]
               /\ maze'.cells[c].distance_to_goal = maze.cells[c].distance_to_goal
               /\ maze'.cells[c].distance_to_start = maze.cells[c].distance_to_start
               /\ maze'.cells[c].confirmed_distance = maze.cells[c].confirmed_distance
          /\ mouse'.position = mouse.position
          /\ mouse'.direction = mouse.direction
          /\ mouse'.cell = mouse.cell
          /\ sim'.position = sim.position
          /\ sim'.direction = sim.direction]_vars

\* C24's case: after the distances were flooded the mouse turned, and
\* sense_walls recorded on both of its sides the wall between the cell and a
\* cell beside it, which closes that cell: its distance, flooded through the
\* wall, is still there.
SensedInteriorWallCase ==
  /\ ret.op = "sense_walls"
  /\ \E e \in {minus_90(mouse.direction), plus_90(mouse.direction)} :
       /\ Across(e) # None
       /\ maze.cells[mouse.cell].walls[e]
       /\ \A f \in 0..3 : maze.cells[Across(e)].walls[f]
       /\ maze.cells[Across(e)].distance_to_goal > 0

RECURSIVE Runs(_)
Runs(ps) ==
  IF Len(ps) < 2 THEN <<>>
  ELSE IF Len(ps) = 2 THEN <<1>>
  ELSE IF DirectionChanges(SubSeq(ps, 1, 3)) = 0
  THEN <<Runs(Tail(ps))[1] + 1>> \o Tail(Runs(Tail(ps)))
  ELSE <<1>> \o Runs(Tail(ps))

\* The distances of the moveForward commands of a list of commands.
RECURSIVE Moved(_)
Moved(cmds) ==
  IF cmds = <<>> THEN <<>>
  ELSE (IF cmds[1][1] = "moveForward" THEN <<cmds[1][2]>> ELSE <<>>) \o Moved(Tail(cmds))

\* The number of turn commands of a list of commands after its first
\* moveForward.
RECURSIVE TurnsAfterMove(_, _)
TurnsAfterMove(cmds, moved) ==
  IF cmds = <<>> THEN 0
  ELSE (IF moved /\ cmds[1][1] # "moveForward" THEN 1 ELSE 0)
       + TurnsAfterMove(Tail(cmds), moved \/ cmds[1][1] = "moveForward")

\* C26: follow_path of a valid cell-by-cell path of two cells or more sends
\* one moveForward(k) for each maximal straight run of k edges of the path,
\* count_corners(path) + 1 of them, and one turn at each change of direction.
RunLengthReplay ==
  (ret.op = "follow_path" /\ Len(ret.args) >= 2) =>
    LET ps == [k \in DOMAIN ret.args |-> maze.cells[ret.args[k]].position]
    IN /\ Moved(ret.ref.cmds) = Runs(ps)
       /\ Len(Moved(ret.ref.cmds)) = count_corners(maze, ret.args) + 1
       /\ TurnsAfterMove(ret.ref.cmds, FALSE) = count_corners(maze, ret.args)

\* C27: the cost of the item find_fastest_path returns its path from is
\* 2 * count_corners(path) + the number of edges of the path, as is the cost
\* of every item it puts on its queue.
PathCostAccounted ==
  (ret.op = "find_fastest_path" /\ ret.found) =>
    ret.cost = CORNER_WEIGHT * count_corners(maze, ret.path)
                 + DISTANCE_WEIGHT * (Len(ret.path) - 1)

\* The mouse stands or has stood on cell c: it stands where it was created
\* until it moves, and trail lists the positions it took since.
Occupied(c) ==
  \/ c = mouse.cell
  \/ \E k \in DOMAIN mouse.trail : maze.cells[c].position = mouse.trail[k]
  \/ mouse.trail = <<>> /\ maze.cells[c].position = mouse.position

\* C28: in every state of a run, every cell whose confirmed flag is set is a
\* cell the mouse stands on or has stood on; a distance assigned by the flood
\* fill sets no flag.
ConfirmedImpliesOccupied ==
  \A c \in DOMAIN maze.cells : maze.cells[c].confirmed_distance => Occupied(c)

\* C28's case: the flood fill of the exploration gave a distance to a cell the
\* mouse never stood on, and the cell is not confirmed.
FloodedNotConfirmedCase ==
  /\ ret.op = "find_goal_explore"
  /\ \E c \in DOMAIN maze.cells :
       /\ maze.cells[c].distance_to_goal # None
       /\ ~Occupied(c)
       /\ ~maze.cells[c].confirmed_distance

\* C29: at every decision of get_best_candidate the cells it finds in the
\* visited set are the cells move_forward has entered, whatever walls were
\* recorded on them and whatever the flood fill did to their distance since;
\* a cell never entered is not found.
VisitedStable ==
  ret.op = "get_best_candidate" =>
    \A i \in Range(ret.args) :
      in_visited(maze, mouse.visited, i) <=> \E v \in mouse.visited : v[1] = i

\* C30: every wall recorded in the maze of the mouse is a wall of the boundary
\* or a wall the real maze has on that side of that cell, and every edge open
\* in the real maze is open in the maze of the mouse.
RecordedWallsSound ==
  /\ \A c \in DOMAIN maze.cells : \A d \in 0..3 :
       maze.cells[c].walls[d] =>
         \/ ~contains(maze, add_to_position(d, maze.cells[c].position))
         \/ sim.maze.cells[c].walls[d]
  /\ \A a, b \in DOMAIN maze.cells : Open(sim.maze, a, b) => Open(maze, a, b)

\* C30's case: after a move, an interior wall is recorded on the two cells it
\* is between, the cell of the mouse and a cell the mouse has not entered,
\* and another edge of the cell of the mouse is really open.
RecordedInteriorWallCase ==
  /\ mouse.visited # {}
  /\ \E c \in DOMAIN maze.cells : \E d \in 0..3 :
       /\ Across(d) # None
       /\ maze.cells[mouse.cell].walls[d]
       /\ maze.cells[Across(d)].walls[minus_180(d)]
       /\ \A v \in mouse.visited : v[1] # Across(d)
       /\ c # Across(d)
       /\ Open(sim.maze, mouse.cell, c)

\* The exceptions of a step to a neighbor that is not there or not open.
BlockedErrors == {"PathBlockedException", "NotANeighborException", "MouseCrashedError"}

PlanAfterExploration ==
  (/\ mouse.position = start
   /\ \E v \in mouse.visited : maze.cells[v[1]].position = goal
   /\ maze = update_flood_fill_distances(sense_walls(State(maze, mouse, sim)).maze,
                                         goal, FALSE))
    => /\ find_fastest_path(maze, start, goal).found
       /\ IsRoute(maze, find_fastest_path(maze, start, goal).path, start, goal)

\* C33: follow_path of a cell-by-cell path from the cell of the mouse over
\* edges really open, as find_fastest_path returns one over explored cells,
\* raises no PathBlockedException, makes the simulator report no crash, and
\* ends with the mouse at the last cell of the path.
ReplayReachesGoal ==
  ret.op = "follow_path" =>
    /\ ret.ref.err \notin {"PathBlockedException", "MouseCrashedError"}
    /\ ret.ref.position = maze.cells[ret.args[Len(ret.args)]].position

\* The walls around the mouse are recorded and the goal distances are those
\* of a flood fill over the recorded walls: sense_walls and the flood fill of
\* a pass of find_goal_explore would change nothing.
SensedAndFlooded ==
  maze = update_flood_fill_distances(sense_walls(State(maze, mouse, sim)).maze, goal, FALSE)

\* C34: away from the goal, with the walls sensed and the distances flooded,
\* the cell get_best_candidate chooses among the cells get_reachable_neighbors
\* returns has a goal distance below the one of the cell of the mouse.
GreedyDescent ==
  (/\ ret.op = "get_best_candidate"
   /\ ret.err = NoErr
   /\ mouse.position # goal
   /\ SensedAndFlooded
   /\ Mouse_get_reachable_neighbors(State(maze, mouse, sim)).state.mouse.direction
        = mouse.direction
   /\ ret.args = Mouse_get_reachable_neighbors(State(maze, mouse, sim)).neighbors)
    => maze.cells[ret.path[1]].distance_to_goal < maze.cells[mouse.cell].distance_to_goal

\* C35: minus_90 and plus_90 undo each other, minus_180 is plus_90 twice and
\* undoes itself, plus_90 four times is the identity, a step by d and a step
\* by minus_180(d) lead back to the position; and for the mouse, turn_left
\* then turn_right, turn_right then turn_left, and turn_around twice to
\* either side, leave the tracked and the simulated heading as they were.
RotationAlgebra ==
  /\ \A d \in Range(Direction) :
       /\ plus_90(minus_90(d)) = d
       /\ minus_90(plus_90(d)) = d
       /\ minus_180(d) = plus_90(plus_90(d))
       /\ minus_180(minus_180(d)) = d
       /\ plus_90(plus_90(plus_90(plus_90(d)))) = d
       /\ \A p \in Positions(maze) \cup {mouse.position, sim.position} :
            add_to_position(minus_180(d), add_to_position(d, p)) = p
  /\ pc = "mouse" =>
       LET S == State(maze, mouse, sim)
           same(T) == /\ T.err = NoErr
                      /\ T.mouse.direction = mouse.direction
                      /\ T.sim.direction = sim.direction
                      /\ T.mouse.position = mouse.position
       IN /\ same(turn_right(turn_left(S)))
          /\ same(turn_left(turn_right(S)))
          /\ \A l1, l2 \in BOOLEAN : same(turn_around(turn_around(S, l1), l2))
          /\ turn_left(S).mouse.direction = minus_90(mouse.direction)
          /\ turn_around(S, TRUE).mouse.direction = minus_180(mouse.direction)
          /\ turn_around(S, FALSE).mouse.direction = minus_180(mouse.direction)

\* C35's case: the mouse has turned right from WEST, past the last direction,
\* and faces NORTH, as the simulator does, away from the corner (0, 0).
TurnedPastWestCase ==
  /\ ret.op = "turn_right"
  /\ ret.err = NoErr
  /\ mouse.direction = NORTH
  /\ sim.direction = NORTH
  /\ sim.cmds = <<<<"turnRight", 1>>>>
  /\ mouse.position # <<0, 0>>

====
